---- MODULE Spec2Model ----
(***************************************************************************)
(* Model of co2meter-rs (src/src/lib.rs): the CO2Monitor HID session, the  *)
(* frame cipher (decrypt), the frame decoder (decode_message) and the      *)
(* acquisition loop (read_data / read_data_inner).                         *)
(*                                                                         *)
(* Representation:                                                         *)
(*   Option<T>      None is <<>>, Some(v) is <<v>>                         *)
(*   [u8;8]         a tuple of 8 naturals below 256 (index 1 is byte 0)    *)
(*   u64            a tuple of 64 bits, most significant first             *)
(*   f32 (Celsius)  the integer n standing for n * 2^-15, which is exact   *)
(*                  for every value convert_temperature_to_celcius returns *)
(*   events         the calls made on the transport by the current         *)
(*                  read_data, in order, each with its outcome             *)
(*   CO2Reading     its time field (record_time and the wall clock) is     *)
(*                  written once and read by nothing; it is left out       *)
(***************************************************************************)
EXTENDS Integers, Sequences, FiniteSets, TLC

VARIABLES bypass_decrypt, device, magic_table, pc, calls, max_requests,
          co2, temp, request_num, history, result, events,
          fn_pc, fn_frame, fn_plain, fn_message

\* One application of decrypt and decode_message to a frame, outside any read_data.
fnVars == <<fn_pc, fn_frame, fn_plain, fn_message>>

vars == <<bypass_decrypt, device, magic_table, pc, calls, max_requests,
          co2, temp, request_num, history, result, events, fnVars>>

\* ------------------------------------------------------------------ bounds
\* Largest max_requests a caller passes.
MaxBudget == 4
\* Reads past the budget that one acquisition is followed through; the u32
\* counter request_num stays far below 2^32, so it never wraps or traps here.
ExtraReads == 1
\* read_data calls made on one monitor.
MaxCalls == 2

\* --------------------------------------------------------------- constants
CODE_END_MESSAGE == 13
CODE_CO2 == 80
CODE_TEMPERATURE == 66

None == <<>>
Some(v) == <<v>>

\* "Htemp99e" as ASCII bytes.
CO2MON_MAGIC_WORD == <<72, 116, 101, 109, 112, 57, 57, 101>>

\* ----------------------------------------------------------------- helpers
RECURSIVE Pow2(_)
Pow2(n) == IF n = 0 THEN 1 ELSE 2 * Pow2(n - 1)

\* temp as f32 * 0.0625 - 273.15, in units of 2^-15.  The product is exact;
\* the f32 nearest to 273.15 is 8950579 * 2^-15; the difference is rounded
\* once, to 24 significant bits, ties to even.
RoundTiesEven(d, q) ==
    LET lo == (d \div q) * q
        r  == d - lo
    IN  IF 2 * r < q THEN lo
        ELSE IF 2 * r > q THEN lo + q
        ELSE IF (lo \div q) % 2 = 0 THEN lo ELSE lo + q

RoundToF32(d) ==
    LET a == IF d < 0 THEN 0 - d ELSE d
        q == IF a < Pow2(24) THEN 1
             ELSE IF a < Pow2(25) THEN 2
             ELSE IF a < Pow2(26) THEN 4
             ELSE 8
    IN  IF d < 0 THEN 0 - RoundTiesEven(a, q) ELSE RoundTiesEven(a, q)

\* Mutant of convert_temperature_to_celcius: the offset is 273 instead of 273.15.
convert_temperature_to_celcius_Offset273(t) == RoundToF32(t * 2048 - 273 * 32768)

convert_temperature_to_celcius(t) == RoundToF32(t * 2048 - 8950579)

\* bit i (1 = most significant of byte 0) of the 8 bytes x
list_to_u64(x) ==
    [i \in 1..64 |-> (x[((i - 1) \div 8) + 1] \div Pow2(7 - ((i - 1) % 8))) % 2]

u64_to_list(w) ==
    [k \in 1..8 |->
        w[8*k - 7] * 128 + w[8*k - 6] * 64 + w[8*k - 5] * 32 + w[8*k - 4] * 16
      + w[8*k - 3] * 8 + w[8*k - 2] * 4 + w[8*k - 1] * 2 + w[8*k]]

\* (byte << 4) | (byte >> 4) on u8: the shift left drops the high nibble
get_magic_word ==
    [i \in 1..8 |-> ((CO2MON_MAGIC_WORD[i] * 16) % 256) + (CO2MON_MAGIC_WORD[i] \div 16)]

wrapping_sub(a, b) == (a - b + 256) % 256
wrapping_add(a, b) == (a + b) % 256

\* Mutant of decrypt: a plain shift, the three low bits are lost.
decrypt_ShiftOnly(data) ==
    IF bypass_decrypt THEN data
    ELSE
      LET rearranged_data == <<data[3], data[5], data[1], data[8],
                               data[2], data[7], data[6], data[4]>>
          message == list_to_u64(rearranged_data)
          key     == list_to_u64(magic_table)
          xored   == [i \in 1..64 |-> (message[i] + key[i]) % 2]
          rotated == [i \in 1..64 |-> IF i <= 3 THEN 0 ELSE xored[i - 3]]
          result_list == u64_to_list(rotated)
          magic_word  == get_magic_word
      IN  [i \in 1..8 |-> wrapping_sub(result_list[i], magic_word[i])]

decrypt(data) ==
    IF bypass_decrypt THEN data
    ELSE
      LET rearranged_data == <<data[3], data[5], data[1], data[8],
                               data[2], data[7], data[6], data[4]>>
          message == list_to_u64(rearranged_data)
          key     == list_to_u64(magic_table)
          xored   == [i \in 1..64 |-> (message[i] + key[i]) % 2]
          \* (result >> 3) | (result << 61)
          rotated == [i \in 1..64 |-> IF i <= 3 THEN xored[i + 61] ELSE xored[i - 3]]
          result_list == u64_to_list(rotated)
          magic_word  == get_magic_word
      IN  [i \in 1..8 |-> wrapping_sub(result_list[i], magic_word[i])]

\* Mutant of decode_message: the terminator byte is not tested.
decode_message_NoTerminator(msg) ==
    IF msg[6] # 0 \/ msg[7] # 0 \/ msg[8] # 0
    THEN <<None, None>>
    ELSE IF wrapping_add(wrapping_add(msg[1], msg[2]), msg[3]) # msg[4]
    THEN <<None, None>>
    ELSE LET value == msg[2] * 256 + msg[3]
         IN  IF msg[1] = CODE_CO2 THEN <<Some(value), None>>
             ELSE IF msg[1] = CODE_TEMPERATURE
                  THEN <<None, Some(convert_temperature_to_celcius(value))>>
             ELSE <<None, None>>

\* Mutant of decode_message: the value is read low byte first.
decode_message_LittleEndian(msg) ==
    IF msg[6] # 0 \/ msg[7] # 0 \/ msg[8] # 0 \/ msg[5] # CODE_END_MESSAGE
    THEN <<None, None>>
    ELSE IF wrapping_add(wrapping_add(msg[1], msg[2]), msg[3]) # msg[4]
    THEN <<None, None>>
    ELSE LET value == msg[3] * 256 + msg[2]
         IN  IF msg[1] = CODE_CO2 THEN <<Some(value), None>>
             ELSE IF msg[1] = CODE_TEMPERATURE
                  THEN <<None, Some(convert_temperature_to_celcius(value))>>
             ELSE <<None, None>>

\* Mutant of decode_message: a temperature frame also yields its raw value as CO2.
decode_message_BothForTemp(msg) ==
    IF msg[6] # 0 \/ msg[7] # 0 \/ msg[8] # 0 \/ msg[5] # CODE_END_MESSAGE
    THEN <<None, None>>
    ELSE IF wrapping_add(wrapping_add(msg[1], msg[2]), msg[3]) # msg[4]
    THEN <<None, None>>
    ELSE LET value == msg[2] * 256 + msg[3]
         IN  IF msg[1] = CODE_CO2 THEN <<Some(value), None>>
             ELSE IF msg[1] = CODE_TEMPERATURE
                  THEN <<Some(value), Some(convert_temperature_to_celcius(value))>>
             ELSE <<None, None>>

decode_message(msg) ==
    IF msg[6] # 0 \/ msg[7] # 0 \/ msg[8] # 0 \/ msg[5] # CODE_END_MESSAGE
    THEN <<None, None>>
    ELSE IF wrapping_add(wrapping_add(msg[1], msg[2]), msg[3]) # msg[4]
    THEN <<None, None>>
    ELSE LET value == msg[2] * 256 + msg[3]
         IN  IF msg[1] = CODE_CO2 THEN <<Some(value), None>>
             ELSE IF msg[1] = CODE_TEMPERATURE
                  THEN <<None, Some(convert_temperature_to_celcius(value))>>
             ELSE <<None, None>>

\* Mutant of MatchMessage: a slot once filled is never overwritten.
MatchMessage_FirstWins(message, c, t) ==
    IF message[2] = None
    THEN <<IF c = None THEN message[1] ELSE c, t>>
    ELSE IF message[1] = None
    THEN <<c, IF t = None THEN message[2] ELSE t>>
    ELSE <<c, t>>

\* The match of read_data_inner: the new <<co2, temp>>.
\*   (co2_val, None) => co2 = co2_val
\*   (None, temp_val) => temp = temp_val
\*   _ => {}
MatchMessage(message, c, t) ==
    IF message[2] = None THEN <<message[1], t>>
    ELSE IF message[1] = None THEN <<c, message[2]>>
    ELSE <<c, t>>

\* The arm of that match a message takes: 1, 2, or 3 for the catch-all.
MatchArm(message) ==
    IF message[2] = None THEN 1
    ELSE IF message[1] = None THEN 2
    ELSE 3

\* Mutant of WhileCond: the budget alone decides, found values do not stop it.
WhileCond_BudgetOnly(rn, max, c, t) == rn < max

\* Mutant of WhileCond: off by one on the budget.
WhileCond_OffByOne(rn, max, c, t) == (rn <= max) # (c # None /\ t # None)

\* Mutant of WhileCond: a do-while, the body runs once before the test.
WhileCond_DoWhile(rn, max, c, t) == rn = 0 \/ ((rn < max) # (c # None /\ t # None))

\* Mutant of WhileCond: the last unit of budget is never spent.
WhileCond_StrictlyBelow(rn, max, c, t) == (rn + 1 < max) # (c # None /\ t # None)

\* The while condition: (request_num < max_requests) ^ (co2.is_some() && temp.is_some())
WhileCond(rn, max, c, t) == (rn < max) # (c # None /\ t # None)

\* Mutant of Reading: the temperature slot is tested first.
Reading_TempFirst(c, t) ==
    IF t = None THEN [kind |-> "MissingTemperature"]
    ELSE IF c = None THEN [kind |-> "MissingCO2"]
    ELSE [kind |-> "Ok", co2_ppm |-> c[1], temp_c |-> t[1]]

\* Ok(CO2Reading{..}) with the two ok_or(..)? in field order.
Reading(c, t) ==
    IF c = None THEN [kind |-> "MissingCO2"]
    ELSE IF t = None THEN [kind |-> "MissingTemperature"]
    ELSE [kind |-> "Ok", co2_ppm |-> c[1], temp_c |-> t[1]]

\* Mutant of InnerResult: the read error is swallowed.
InnerResult_IgnoreError(readFailed, c, t) ==
    IF c = None THEN [kind |-> "MissingCO2"]
    ELSE IF t = None THEN [kind |-> "MissingTemperature"]
    ELSE [kind |-> "Ok", co2_ppm |-> c[1], temp_c |-> t[1]]

\* What read_data_inner returns: the error of hid_read()? or the Reading.
InnerResult(readFailed, c, t) ==
    IF readFailed THEN [kind |-> "ReadError"] ELSE Reading(c, t)

NoResult == [kind |-> "none"]
ReadErr == <<"Err">>

\* A call on the transport: open_device, send_feature_report (with the bytes
\* sent), read, or the drop of the HidDevice that closes it.
Ev(op, ok, data) == [op |-> op, ok |-> ok, data |-> data]

\* Mutant of new_magic_table: the table is derived from the seed.
new_magic_table_FromSeed == get_magic_word

\* magic_table : [0_u8;8] in CO2Monitor::new
new_magic_table == <<0, 0, 0, 0, 0, 0, 0, 0>>

\* ---------------------------------------------------- frames the device sends
\* Frames sent in clear (decoded as they are when bypass_decrypt is set).
Clear ==
    { <<80, 0, 100, 180, 13, 0, 0, 0>>,      \* CO2 100
      <<66, 17, 133, 216, 13, 0, 0, 0>>,     \* temperature 4485
      <<66, 18, 96, 180, 13, 0, 0, 0>>,      \* temperature 4704
      <<80, 0, 100, 180, 12, 0, 0, 0>>,      \* bad terminator
      <<65, 0, 16, 81, 13, 0, 0, 0>> }       \* unrecognized type code

\* Frames as the device enciphers them for an all-zero magic table.
Enciphered ==
    { <<212, 164, 162, 182, 61, 154, 156, 80>>,    \* CO2 100
      <<53, 164, 162, 182, 71, 154, 156, 184>>,    \* CO2 400
      <<221, 164, 50, 182, 198, 154, 156, 112>>,   \* temperature 4485
      <<212, 164, 162, 182, 61, 154, 156, 88>>,    \* bad checksum
      <<221, 164, 50, 190, 198, 154, 156, 112>> }  \* non-zero trailing byte

RawFrames == Clear \cup Enciphered

\* --------------------------------------------------------------------- Init
\* CO2Monitor::new: device None, magic_table all zero, bypass as the caller asks.
Init ==
    /\ bypass_decrypt \in BOOLEAN
    /\ device = None
    /\ magic_table = new_magic_table
    /\ pc = "idle"
    /\ calls = 0
    /\ max_requests = 0
    /\ co2 = None
    /\ temp = None
    /\ request_num = 0
    /\ history = <<>>
    /\ result = NoResult
    /\ events = <<>>
    /\ fn_pc = "off"
    /\ fn_frame = <<>>
    /\ fn_plain = <<>>
    /\ fn_message = <<>>

\* ------------------------------------------------------------------ actions
Enter(max) ==
    /\ pc = "idle"
    /\ calls < MaxCalls
    /\ calls' = calls + 1
    /\ max_requests' = max
    /\ co2' = None
    /\ temp' = None
    /\ request_num' = 0
    /\ history' = <<>>
    /\ UNCHANGED <<bypass_decrypt, magic_table, fnVars>>

\* read_data -> hid_open: assert!(self.device.is_none()) fails.
ReadDataPanic ==
    \E max \in 0..MaxBudget :
        /\ Enter(max)
        /\ device # None
        /\ pc' = "panicked"
        /\ result' = NoResult
        /\ events' = <<>>
        /\ UNCHANGED device

\* read_data -> hid_open: open_device fails; device is not assigned.
ReadDataOpenFail ==
    \E max \in 0..MaxBudget :
        /\ Enter(max)
        /\ device = None
        /\ pc' = "idle"
        /\ result' = [kind |-> "OpenError"]
        /\ events' = <<Ev("open", FALSE, <<>>)>>
        /\ UNCHANGED device

\* read_data -> hid_open: the device opens, send_feature_report fails;
\* hid_open returns the error and read_data returns it at once.
ReadDataFeatureFail ==
    \E max \in 0..MaxBudget :
        /\ Enter(max)
        /\ device = None
        /\ device' = Some("HidDevice")
        /\ pc' = "idle"
        /\ result' = [kind |-> "FeatureReportError"]
        /\ events' = <<Ev("open", TRUE, <<>>), Ev("feature", FALSE, magic_table)>>

\* read_data -> hid_open succeeds; read_data_inner starts with empty slots.
ReadDataStart ==
    \E max \in 0..MaxBudget :
        /\ Enter(max)
        /\ device = None
        /\ device' = Some("HidDevice")
        /\ pc' = "loop"
        /\ result' = NoResult
        /\ events' = <<Ev("open", TRUE, <<>>), Ev("feature", TRUE, magic_table)>>

\* hid_close: assert!(self.device.is_some()); self.device = None
hid_close(res, evs) ==
    IF device = None
    THEN /\ pc' = "panicked"
         /\ result' = NoResult
         /\ events' = evs
         /\ UNCHANGED device
    ELSE /\ device' = None
         /\ pc' = "idle"
         /\ result' = res
         /\ events' = Append(evs, Ev("close", TRUE, <<>>))

\* One iteration of the while loop whose hid_read succeeds with raw frame r.
LoopRead(r) ==
    /\ pc = "loop"
    /\ WhileCond(request_num, max_requests, co2, temp)
    /\ request_num < max_requests + ExtraReads
    /\ device # None
    /\ LET data    == decrypt(r)
           message == decode_message(data)
           slots   == MatchMessage(message, co2, temp)
       IN  /\ co2' = slots[1]
           /\ temp' = slots[2]
           /\ history' = Append(history, message)
    /\ request_num' = request_num + 1
    /\ events' = Append(events, Ev("read", TRUE, <<>>))
    /\ UNCHANGED <<bypass_decrypt, device, magic_table, pc, calls,
                   max_requests, result, fnVars>>

\* An iteration whose hid_read fails: read_data_inner returns the error,
\* read_data closes the device and returns it.
LoopReadFail ==
    /\ pc = "loop"
    /\ WhileCond(request_num, max_requests, co2, temp)
    /\ request_num < max_requests + ExtraReads
    /\ history' = Append(history, ReadErr)
    /\ hid_close(InnerResult(TRUE, co2, temp), Append(events, Ev("read", FALSE, <<>>)))
    /\ UNCHANGED <<bypass_decrypt, magic_table, calls, max_requests,
                   co2, temp, request_num, fnVars>>

\* The while condition is false: build the Reading, close, return.
LoopExit ==
    /\ pc = "loop"
    /\ ~WhileCond(request_num, max_requests, co2, temp)
    /\ hid_close(InnerResult(FALSE, co2, temp), events)
    /\ UNCHANGED <<bypass_decrypt, magic_table, calls, max_requests,
                   co2, temp, request_num, history, fnVars>>

Next ==
    \/ ReadDataPanic
    \/ ReadDataOpenFail
    \/ ReadDataFeatureFail
    \/ ReadDataStart
    \/ \E r \in RawFrames : LoopRead(r)
    \/ LoopReadFail
    \/ LoopExit

Spec == Init /\ [][Next]_vars

\* ------------------------------------------- decrypt and decode_message alone
\* Frames for the two functions: every combination of type code, value
\* bytes, right or wrong checksum, right or wrong terminator and trailing
\* bytes, and the frames the device sends.
FnFrames ==
    { <<b0, b1, b2, (b0 + b1 + b2 + d) % 256, b4, t[1], t[2], t[3]>> :
        b0 \in {CODE_CO2, CODE_TEMPERATURE, 65},
        b1 \in {0, 17, 255},
        b2 \in {100, 133, 255},
        d  \in {0, 1},
        b4 \in {CODE_END_MESSAGE, 12},
        t  \in {<<0, 0, 0>>, <<1, 0, 0>>, <<0, 1, 0>>, <<0, 0, 1>>} }
    \cup RawFrames

\* Keys decrypt is applied with: the one CO2Monitor::new sets, and two others.
FnKeys == {new_magic_table, get_magic_word, <<1, 35, 69, 103, 137, 171, 205, 239>>}

FnInit ==
    /\ bypass_decrypt \in BOOLEAN
    /\ magic_table \in FnKeys
    /\ fn_frame \in FnFrames
    /\ fn_pc = "frame"
    /\ fn_plain = <<>>
    /\ fn_message = <<>>
    /\ device = None
    /\ pc = "idle"
    /\ calls = 0
    /\ max_requests = 0
    /\ co2 = None
    /\ temp = None
    /\ request_num = 0
    /\ history = <<>>
    /\ result = NoResult
    /\ events = <<>>

\* self.decrypt(data), as hid_read applies it to the bytes read
FnDecrypt ==
    /\ fn_pc = "frame"
    /\ fn_plain' = decrypt(fn_frame)
    /\ fn_pc' = "plain"
    /\ UNCHANGED <<bypass_decrypt, device, magic_table, pc, calls, max_requests,
                   co2, temp, request_num, history, result, events,
                   fn_frame, fn_message>>

\* self.decode_message(data), as read_data_inner applies it to hid_read's result
FnDecode ==
    /\ fn_pc = "plain"
    /\ fn_message' = decode_message(fn_plain)
    /\ fn_pc' = "decoded"
    /\ UNCHANGED <<bypass_decrypt, device, magic_table, pc, calls, max_requests,
                   co2, temp, request_num, history, result, events,
                   fn_frame, fn_plain>>

FnNext == FnDecrypt \/ FnDecode

FnSpec == FnInit /\ [][FnNext]_vars

TypeOK ==
    /\ bypass_decrypt \in BOOLEAN
    /\ device \in {None, Some("HidDevice")}
    /\ pc \in {"idle", "loop", "panicked"}
    /\ calls \in 0..MaxCalls
    /\ max_requests \in 0..MaxBudget
    /\ request_num \in 0..(MaxBudget + ExtraReads)
    /\ Len(history) \in {request_num, request_num + 1}

\* ------------------------------------------------- vocabulary of the claims
Invalid == <<None, None>>
IsMessage(e) == Len(e) = 2
IsCo2(e) == IsMessage(e) /\ e[1] # None
IsTemp(e) == IsMessage(e) /\ e[2] # None
NoReadError == \A i \in 1..Len(history) : IsMessage(history[i])
BothFilled == co2 # None /\ temp # None
\* read_data has returned what read_data_inner returned
Returned == pc = "idle" /\ result.kind \notin {"none", "OpenError", "FeatureReportError"}
\* ... and the loop ended by its condition, no read failed
LoopEnded == Returned /\ NoReadError
\* this step is a successful hid_read of a frame that decodes to m
ReadOf(m) == /\ Len(history') = Len(history) + 1
             /\ history'[Len(history')] = m

\* The slots after the first n reads of h, replayed with the loop's match.
RECURSIVE SlotsAfter(_, _)
SlotsAfter(h, n) ==
    IF n = 0 THEN <<None, None>>
    ELSE LET s == SlotsAfter(h, n - 1) IN MatchMessage(h[n], s[1], s[2])

\* Slots only ever go from empty to filled over h.
Monotone(h) ==
    \A n \in 1..Len(h) : \A k \in 1..2 :
        SlotsAfter(h, n - 1)[k] # None => SlotsAfter(h, n)[k] # None

\* The plain policy: stop when the budget is exhausted or both values are found.
PlainStop(h, n) ==
    n >= max_requests \/ (SlotsAfter(h, n)[1] # None /\ SlotsAfter(h, n)[2] # None)

LastIndex(h, P(_)) == CHOOSE i \in 1..Len(h) : P(h[i]) /\ \A j \in (i + 1)..Len(h) : ~P(h[j])

\* ------------------------------------------------------------------- claims

\* C1: a frame that decode rejects leaves both slots as they were; its only
\* effect is to increase the request counter by one.
C1_InvalidFrameKeepsSlots ==
    [][ReadOf(Invalid) =>
          /\ co2' = co2
          /\ temp' = temp
          /\ request_num' = request_num + 1]_vars

\* C2: with a source that never fails, max_requests bounds the acquisition:
\* the loop never issues more than max_requests reads before it returns, also
\* when the second slot is filled by exactly the max_requests-th read.
C2_BudgetBoundsReads ==
    NoReadError => request_num <= max_requests

\* C3: whenever read_data has returned, on every exit path, the device field
\* is None.
C3_ClosedOnReturn ==
    (pc = "idle" /\ result # NoResult) => device = None

\* C4: the loop with the XOR condition issues the same reads and returns the
\* same result as a loop that stops when the budget is exhausted or both
\* values are found, on every frame sequence over which slots only fill.
C4_XorSameAsPlain ==
    (NoReadError /\ Monotone(history)) =>
        /\ \A n \in 0..(Len(history) - 1) : ~PlainStop(history, n)
        /\ LoopEnded =>
              /\ PlainStop(history, request_num)
              /\ result = Reading(SlotsAfter(history, request_num)[1],
                                SlotsAfter(history, request_num)[2])

\* C5: once both slots are filled after k < max_requests reads, the next step
\* is the return of success with those values: no further read is issued.
C5_StopsWhenBothFound ==
    [][(pc = "loop" /\ BothFilled /\ request_num < max_requests) =>
          /\ pc' = "idle"
          /\ result'.kind = "Ok"
          /\ result'.co2_ppm = co2[1]
          /\ result'.temp_c = temp[1]
          /\ request_num' = request_num
          /\ history' = history]_vars

C5_Witness ==
    /\ pc = "idle"
    /\ result.kind = "Ok"
    /\ request_num = 2
    /\ max_requests = 3
    /\ IsCo2(history[1])
    /\ IsTemp(history[2])

\* C6: when every frame read is invalid, the acquisition returns after
\* exactly max_requests reads with the missing-CO2 error.
C6_AllInvalid ==
    (Returned /\ \A i \in 1..Len(history) : history[i] = Invalid) =>
        /\ request_num = max_requests
        /\ Len(history) = max_requests
        /\ result.kind = "MissingCO2"

C6_Witness ==
    /\ Returned
    /\ max_requests = 3
    /\ Len(history) = 3
    /\ \A i \in 1..Len(history) : history[i] = Invalid
    /\ result.kind = "MissingCO2"

\* C7: a failed read is the last read of its call, and read_data returns the
\* read error, whatever the slots hold and whatever budget is left.
C7_ReadErrorAborts ==
    \A i \in 1..Len(history) :
        ~IsMessage(history[i]) =>
            /\ i = Len(history)
            /\ request_num = i - 1
            /\ pc = "idle"
            /\ result = [kind |-> "ReadError"]

C7_Witness ==
    /\ pc = "idle"
    /\ result.kind = "ReadError"
    /\ Len(history) = 2
    /\ co2 # None
    /\ request_num < max_requests

\* C8: when the loop ends without a read error the result is missing-CO2 if
\* the CO2 slot is empty, else missing-temperature if the temperature slot is
\* empty, else a Reading with both slot values; a Reading has both slots filled.
C8_OutcomeOrder ==
    LoopEnded =>
        /\ co2 = None => result.kind = "MissingCO2"
        /\ (co2 # None /\ temp = None) => result.kind = "MissingTemperature"
        /\ BothFilled =>
              /\ result.kind = "Ok"
              /\ result.co2_ppm = co2[1]
              /\ result.temp_c = temp[1]
        /\ result.kind = "Ok" => BothFilled

C8_Witness ==
    /\ LoopEnded
    /\ co2 = None
    /\ temp = None
    /\ request_num > 0
    /\ result.kind = "MissingCO2"

\* C9: a valid CO2 frame overwrites the CO2 slot, a valid temperature frame
\* the temperature slot, and a returned Reading carries the values of the
\* most recent valid CO2 frame and the most recent valid temperature frame.
C9_LastValidWins ==
    /\ [][(Len(history') = Len(history) + 1 /\ IsMessage(history'[Len(history')])) =>
            /\ IsCo2(history'[Len(history')]) => co2' = history'[Len(history')][1]
            /\ IsTemp(history'[Len(history')]) => temp' = history'[Len(history')][2]]_vars
    /\ [](result.kind = "Ok" =>
            /\ Some(result.co2_ppm) = history[LastIndex(history, IsCo2)][1]
            /\ Some(result.temp_c) = history[LastIndex(history, IsTemp)][2])

C9_Witness ==
    /\ result.kind = "Ok"
    /\ Len(history) = 3
    /\ IsCo2(history[1])
    /\ IsCo2(history[2])
    /\ IsTemp(history[3])
    /\ history[1] # history[2]
    /\ Some(result.co2_ppm) = history[2][1]

\* C10 as stated: with max_requests = 0 and only valid CO2 frames the
\* acquisition fails with the missing-temperature error after at most one read.
C10_ZeroBudgetMissingTemperature ==
    (LoopEnded /\ max_requests = 0 /\ \A i \in 1..Len(history) : IsCo2(history[i])) =>
        /\ result.kind = "MissingTemperature"
        /\ request_num <= 1

\* C10 amended: with max_requests = 0 the acquisition issues no read at all
\* and fails with the missing-CO2 error.
C10_ZeroBudgetMissingCO2 ==
    (max_requests = 0 /\ calls > 0 /\ pc # "panicked") =>
        /\ request_num = 0
        /\ history = <<>>
        /\ Returned => result.kind = "MissingCO2"

C10_Witness ==
    /\ Returned
    /\ max_requests = 0
    /\ request_num = 0
    /\ result.kind = "MissingCO2"

\* C11 as stated: every acquisition performs at least one read attempt, for
\* every max_requests including 0.
C11_AlwaysOneRead ==
    Returned => Len(history) >= 1

\* C11 amended: an acquisition performs at least one read attempt exactly when
\* max_requests is at least 1; with max_requests = 0 the loop body never runs.
C11_OneReadIffBudget ==
    Returned => (Len(history) >= 1 <=> max_requests >= 1)

C11_Witness ==
    /\ Returned
    /\ max_requests = 1
    /\ Len(history) = 1
    /\ request_num = 1

\* ------------------------------------------ claims about decode and decrypt
FnDecoded == fn_pc = "decoded"
\* terminator 0x0D, trailing bytes zero, byte 3 the sum of bytes 0..2 mod 256
PassesChecks(f) ==
    /\ f[5] = 13
    /\ f[6] = 0 /\ f[7] = 0 /\ f[8] = 0
    /\ f[4] = (f[1] + f[2] + f[3]) % 256
Abs(x) == IF x < 0 THEN 0 - x ELSE x
\* n * 2^-15 degrees is within 0.0001 degrees of v / 10000 degrees
NearTenThousandths(n, v) == Abs(n * 625 - v * 2048) <= 2048

\* C12: decode returns (None, None) for every frame whose byte 4 is not 0x0D,
\* or one of whose bytes 5, 6, 7 is not zero, or whose byte 3 is not
\* (byte0 + byte1 + byte2) mod 256.
C12_DecodeRejects ==
    (FnDecoded /\ ~PassesChecks(fn_plain)) => fn_message = <<None, None>>

\* a frame rejected for its terminator alone, its checksum right and wrapped
C12_Witness ==
    /\ FnDecoded
    /\ fn_plain[5] # 13
    /\ fn_plain[4] = (fn_plain[1] + fn_plain[2] + fn_plain[3]) % 256
    /\ fn_plain[1] + fn_plain[2] + fn_plain[3] >= 256
    /\ fn_plain[6] = 0 /\ fn_plain[7] = 0 /\ fn_plain[8] = 0
    /\ fn_message = <<None, None>>

\* C13: for a frame that passes the checks, type 0x50 yields
\* (Some(256*byte1 + byte2), None), type 0x42 yields (None, Some(t)) with t
\* the value * 0.0625 - 273.15 up to f32 rounding, any other type (None, None).
C13_DecodeClassifies ==
    (FnDecoded /\ PassesChecks(fn_plain)) =>
        LET value == 256 * fn_plain[2] + fn_plain[3] IN
        /\ fn_plain[1] = 80 => fn_message = <<Some(value), None>>
        /\ fn_plain[1] = 66 =>
              /\ fn_message[1] = None
              /\ fn_message[2] # None
              /\ Abs(fn_message[2][1] * 5 - (value * 10240 - 44752896)) <= 25
        /\ fn_plain[1] \notin {80, 66} => fn_message = <<None, None>>

C13_Witness ==
    /\ FnDecoded
    /\ fn_plain = <<80, 0, 100, 180, 13, 0, 0, 0>>
    /\ fn_message = <<Some(100), None>>

\* C14 as stated: a valid frame of type 0x42 with value 4485 decodes to the
\* temperature 6.9625 degrees Celsius.
C14_Temperature4485Is69625 ==
    (FnDecoded /\ fn_plain = <<66, 17, 133, 216, 13, 0, 0, 0>>) =>
        /\ fn_message[2] # None
        /\ NearTenThousandths(fn_message[2][1], 69625)

\* C14 amended: that frame decodes to 4485 * 0.0625 - 273.15 = 7.1625 degrees
\* Celsius (4485 * 625 - 2731500 = 71625), up to f32 rounding.
C14_Temperature4485Is71625 ==
    (FnDecoded /\ fn_plain = <<66, 17, 133, 216, 13, 0, 0, 0>>) =>
        /\ fn_message[1] = None
        /\ fn_message[2] # None
        /\ NearTenThousandths(fn_message[2][1], 4485 * 625 - 2731500)
        /\ NearTenThousandths(fn_message[2][1], 71625)

C14_Witness ==
    /\ FnDecoded
    /\ ~bypass_decrypt
    /\ fn_frame = <<221, 164, 50, 182, 198, 154, 156, 112>>
    /\ fn_plain = <<66, 17, 133, 216, 13, 0, 0, 0>>
    /\ fn_message[2] # None

\* The claim's description of decipher, byte by byte.
RECURSIVE XorBits(_, _, _)
XorBits(a, b, n) ==
    IF n = 0 THEN 0
    ELSE ((a + b) % 2) + 2 * XorBits(a \div 2, b \div 2, n - 1)
\* input bytes in the order [2,4,0,7,1,6,5,3], XOR the key, byte i (1..8)
XoredByte(raw, key, i) ==
    XorBits(raw[<<2, 4, 0, 7, 1, 6, 5, 3>>[i] + 1], key[i], 8)
\* byte i of the 64-bit word rotated right by 3: the 3 low bits of the byte
\* before it (of the last byte, for the first) above its own 5 high bits
RotatedByte(raw, key, i) ==
    (XoredByte(raw, key, IF i = 1 THEN 8 ELSE i - 1) % 8) * 32
      + (XoredByte(raw, key, i) \div 8)
\* nibble-swap of the i-th ASCII byte of "Htemp99e"
SwappedSeed(i) ==
    LET b == <<72, 116, 101, 109, 112, 57, 57, 101>>[i]
    IN  (b % 16) * 16 + (b \div 16)
FnDeciphered == fn_pc \in {"plain", "decoded"} /\ ~bypass_decrypt

\* C15: with bypass off, output byte i of decipher is (B_i - swap(seed_i)) mod
\* 256, B the bytes of the permuted input XOR the key rotated right by 3 bits
\* cyclically; the subtraction wraps.
C15_Decipher ==
    FnDeciphered =>
        \A i \in 1..8 :
            fn_plain[i] =
                (RotatedByte(fn_frame, magic_table, i) + 256 - SwappedSeed(i)) % 256

\* a non-zero key, low bits that wrap round to the top, a subtraction that wraps
C15_Witness ==
    /\ FnDeciphered
    /\ magic_table = <<1, 35, 69, 103, 137, 171, 205, 239>>
    /\ XoredByte(fn_frame, magic_table, 8) % 8 # 0
    /\ RotatedByte(fn_frame, magic_table, 1) >= 32
    /\ \E i \in 1..8 : RotatedByte(fn_frame, magic_table, i) < SwappedSeed(i)

\* ------------------------------------------- claims about the HID session
FeatureReports == {i \in 1..Len(events) : events[i].op = "feature"}

\* C16 as stated: the magic table a monitor holds, XOR-ed into every frame and
\* pushed in the feature report, is the nibble-swap of "Htemp99e".
C16_KeyIsSwappedSeed ==
    \A i \in FeatureReports :
        /\ events[i].data = [k \in 1..8 |-> SwappedSeed(k)]
        /\ magic_table = [k \in 1..8 |-> SwappedSeed(k)]

\* C16 amended: the magic table a monitor holds, XOR-ed into every frame and
\* pushed in the feature report, is eight zero bytes for its whole lifetime.
C16_KeyIsZero ==
    /\ magic_table = <<0, 0, 0, 0, 0, 0, 0, 0>>
    /\ \A i \in FeatureReports : events[i].data = <<0, 0, 0, 0, 0, 0, 0, 0>>

\* second call: the table was pushed and a frame deciphered with it
C16_Witness ==
    /\ calls = 2
    /\ pc = "loop"
    /\ ~bypass_decrypt
    /\ FeatureReports = {2}
    /\ events[2].data = <<0, 0, 0, 0, 0, 0, 0, 0>>
    /\ Len(history) >= 1
    /\ IsCo2(history[1])

\* C17: in each read_data call the transport sees open, then exactly one
\* feature report carrying the magic table, then zero or more reads, then
\* close; no read before the feature report succeeded, none after the close.
C17_TransportOrder ==
    /\ \A i \in 1..Len(events) :
          /\ events[i].op = "open" <=> i = 1
          /\ events[i].op = "feature" =>
                i = 2 /\ events[1].ok /\ events[i].data = magic_table
          /\ events[i].op = "read" =>
                /\ i >= 3
                /\ events[2].op = "feature" /\ events[2].ok
                /\ \A j \in 1..(i - 1) : events[j].op # "close"
          /\ events[i].op = "close" => i = Len(events) /\ i >= 3
    \* a call that opened the transport and returned has sent the report and closed
    /\ (pc = "idle" /\ Len(events) >= 1 /\ events[1].ok) =>
          /\ Cardinality(FeatureReports) = 1
          /\ events[Len(events)].op = "close"

\* C18: over any sequence of read_data calls the assertions of hid_open and
\* hid_close never fail.
C18_AssertsNeverFail ==
    pc # "panicked"

\* C19: decode never returns a CO2 value and a temperature together, so the
\* match in read_data_inner takes one of its two assigning arms, never the
\* catch-all.
C19_AtMostOneValue ==
    FnDecoded =>
        /\ ~(fn_message[1] # None /\ fn_message[2] # None)
        /\ MatchArm(fn_message) \in {1, 2}

C19_Witness ==
    /\ FnDecoded
    /\ fn_message[1] = None
    /\ fn_message[2] # None
    /\ MatchArm(fn_message) = 2

====
